---- MODULE Spec2Model ----
(***************************************************************************)
(* Model of frontend/script.js: the browser client's session storage,      *)
(* page switching and the three asynchronous backend calls (register,      *)
(* login, analyzeMessage).  Every async function is cut at its awaits:     *)
(* the synchronous prefix up to fetch(), the continuation run when fetch   *)
(* resolves, the continuation run when response.json() resolves, and the   *)
(* catch block run when either promise rejects.                             *)
(***************************************************************************)
EXTENDS Integers, FiniteSets, Sequences

VARIABLES
    localStorage,    \* partial function key -> stored string
    writer,          \* history: key -> id of the request whose handler wrote it
    hidden,          \* ids of the elements whose classList holds "hidden"
    adminBtnDisplay, \* adminBtn.style.display
    globeStarted,    \* the initGlobe guard
    globeInits,      \* history: times the globe was built on this page
    result,          \* the analysis result panel
    strength,        \* the password rules and the strength bar
    inflight,        \* id -> suspended async call
    numInvocations,  \* history: calls of register/login/analyzeMessage
    numRequests,     \* history: fetch() calls
    last             \* history: what the step just taken did

vars == <<localStorage, writer, hidden, adminBtnDisplay, globeStarted,
          globeInits, result, strength, inflight, numInvocations, numRequests,
          last>>

-----------------------------------------------------------------------------
(* Bounds *)

MaxInvocations == 2

-----------------------------------------------------------------------------
(* JavaScript values: a type tag and a string payload. *)

Undefined == [t |-> "undefined", v |-> "undefined"]
JsNull == [t |-> "null", v |-> "null"]
Str(s) == [t |-> "string", v |-> s]
Bool(b) == [t |-> "boolean", v |-> IF b THEN "true" ELSE "false"]
\* an object, carried as its JSON text
Obj(json) == [t |-> "object", v |-> json]

\* String(x), the conversion done by localStorage.setItem and alert
StringOf(x) == IF x.t = "object" THEN "[object Object]" ELSE x.v

\* mutant of Falsy: only undefined and "" count as missing, null does not
Falsy_NullTruthy(x) ==
    \/ x.t = "undefined"
    \/ x.t = "string" /\ x.v = ""
    \/ x.t = "boolean" /\ x.v = "false"

\* !x for the values that occur (strings, booleans, null, undefined)
Falsy(x) ==
    \/ x.t \in {"undefined", "null"}
    \/ x.t = "string" /\ x.v = ""
    \/ x.t = "boolean" /\ x.v = "false"

\* JSON.stringify(x) followed by alert's String(): undefined stays undefined
JSONstringify(x) ==
    CASE x.t = "undefined" -> "undefined"
      [] x.t = "string" -> "\"" \o x.v \o "\""
      [] OTHER -> x.v

-----------------------------------------------------------------------------
(* localStorage *)

KEY_TOKEN == "token"
KEY_IS_ADMIN == "is_admin"

getItem(ls, k) == IF k \in DOMAIN ls THEN Str(ls[k]) ELSE JsNull

setItem(ls, k, x) == [j \in DOMAIN ls \cup {k} |-> IF j = k THEN StringOf(x) ELSE ls[j]]

removeItem(ls, k) == [j \in DOMAIN ls \ {k} |-> ls[j]]

\* history twin of setItem: who wrote the key
setWriter(w, k, id) == [j \in DOMAIN w \cup {k} |-> IF j = k THEN id ELSE w[j]]

-----------------------------------------------------------------------------
(* Page switching *)

Sections == {"landingSection", "registerSection", "loginSection", "dashboardSection"}
GLOBE == "globeContainer"

\* the sections shown
Visible == Sections \ hidden

\* mutant of hideAll: the dashboard is left out of the list
hideAll_NoDashboard(h) == h \cup (Sections \ {"dashboardSection"}) \cup {GLOBE}

hideAll(h) == h \cup Sections \cup {GLOBE}

\* initGlobe unhides the container only when it really builds the globe
initGlobeHidden(h, started) == IF started THEN h ELSE h \ {GLOBE}

\* mutant of initGlobeCount: the globeStarted guard is missing
initGlobeCount_Unguarded(n, started) == n + 1

\* history twin of initGlobe: the globe is built unless the guard returns
initGlobeCount(n, started) == IF started THEN n ELSE n + 1

showLoginHidden(h, started) == initGlobeHidden(hideAll(h) \ {"loginSection"}, started)

showRegisterHidden(h) == hideAll(h) \ {"registerSection"}

showDashboardHidden(h) == hideAll(h) \ {"dashboardSection"}

\* mutant of logoutHidden: Landing is shown without hiding the rest
logoutHidden_NoHide(h) == h \ {"landingSection"}

logoutHidden(h) == hideAll(h) \ {"landingSection"}

\* the document as index.html delivers it: Landing shown, admin button off
InitialHidden == {"registerSection", "loginSection", "dashboardSection", GLOBE}
InitialAdminDisplay == "none"
InitialResult == [hidden |-> TRUE, risk |-> "", score |-> 0, action |-> "", width |-> 0]

\* the rule lines and the bar as index.html delivers them
InitialStrength ==
    [password |-> <<>>, colors |-> [i \in 1..5 |-> ""], score |-> 0,
     className |-> {"strength-bar"}]

-----------------------------------------------------------------------------
(* Messages shown with alert() *)

MSG_FILL == "Please fill all fields"
MSG_REGISTERED == "Registered Successfully"
MSG_NOT_RUNNING == "Server not running"
MSG_RATE_LIMIT == "Too many requests. Try again later."
MSG_LOGIN_OK == "Login successful"
MSG_ENTER_MESSAGE == "Please enter a message"
MSG_LOGIN_FIRST == "Please login first"
MSG_SERVER_ERROR == "Server error"

-----------------------------------------------------------------------------
(* What the user types and what the backend answers *)

Usernames == {"", "alice"}
Passwords == {"", "Passw0rd!"}
Messages == {"", "hello"}

Statuses == {200, 400, 429}

\* the status class the API contract calls success
Is2xx(status) == status \div 100 = 2

\* mutant of ok: everything below 500 counts as success
ok_Below500(status) == status >= 200 /\ status <= 499

\* response.ok
ok(status) == status >= 200 /\ status <= 299

\* mutant of isRateLimited: the status is never tested
isRateLimited_Never(status) == FALSE

\* login's rate-limit test
isRateLimited(status) == status = 429

\* mutant of fieldsMissing: && in place of ||
fieldsMissing_Both(username, password) == Falsy(Str(username)) /\ Falsy(Str(password))

\* !username || !password
fieldsMissing(username, password) == Falsy(Str(username)) \/ Falsy(Str(password))

AccessTokens == {"abc", "xyz"}

EmptyBody ==
    [access_token |-> Undefined, is_admin |-> Undefined, detail |-> Undefined,
     risk_level |-> Undefined, score |-> 0, action |-> Undefined,
     warning |-> Undefined]

LoginBodies ==
    {[EmptyBody EXCEPT !.access_token = Str(tk), !.is_admin = a] :
        tk \in AccessTokens, a \in {Bool(TRUE), Bool(FALSE), Undefined}}

StringDetailBodies ==
    {[EmptyBody EXCEPT !.detail = Str("Invalid credentials")]}

StructuredDetailBodies ==
    {[EmptyBody EXCEPT !.detail = Obj("[{\"msg\":\"field required\"}]")]}

AnalysisBodies ==
    {[EmptyBody EXCEPT !.risk_level = Str("low"), !.score = s,
                       !.action = Str("none"), !.warning = w] :
        s \in {-1, 2, 15}, w \in {Undefined, Str("Final warning")}}

\* an acknowledgement object without any of the fields the client reads
AckBody == EmptyBody

\* the JSON bodies of the API contract, per endpoint and outcome
ResponseBodies(op, status) ==
    CASE op = "register" /\ Is2xx(status) -> {AckBody}
      [] op = "register" /\ ~Is2xx(status) -> StringDetailBodies \cup StructuredDetailBodies
      [] op = "login" /\ Is2xx(status) -> LoginBodies
      [] op = "login" /\ ~Is2xx(status) -> StringDetailBodies
      [] op = "analyze" /\ Is2xx(status) -> AnalysisBodies
      [] OTHER -> StringDetailBodies

-----------------------------------------------------------------------------
(* The record of the step just taken *)

NoRequest == [url |-> "-", username |-> "-", password |-> "-",
              authorization |-> "-", text |-> "-"]

NoStep == [op |-> "-", phase |-> "-", id |-> 0, hadSession |-> FALSE, username |-> "-",
           password |-> "-", message |-> "-", status |-> 0, stage |-> "-",
           alerts |-> <<>>, request |-> NoRequest, json |-> FALSE,
           data |-> EmptyBody]

\* hadSession: a token was stored when the step began
Step(op, phase) ==
    [NoStep EXCEPT !.op = op, !.phase = phase,
                   !.hadSession = KEY_TOKEN \in DOMAIN localStorage]

-----------------------------------------------------------------------------

Init ==
    /\ localStorage = <<>>
    /\ writer = <<>>
    /\ hidden = InitialHidden
    /\ adminBtnDisplay = InitialAdminDisplay
    /\ globeStarted = FALSE
    /\ globeInits = 0
    /\ result = InitialResult
    /\ strength = InitialStrength
    /\ inflight = <<>>
    /\ numInvocations = 0
    /\ numRequests = 0
    /\ last = NoStep

\* a suspended call: which function, which await, the status once known
Suspend(op) == [op |-> op, pc |-> "fetch", status |-> 0]

Pending(op, pc) == {id \in DOMAIN inflight : inflight[id].op = op /\ inflight[id].pc = pc}

Drop(id) == [j \in DOMAIN inflight \ {id} |-> inflight[j]]

Start(id, op) == [j \in DOMAIN inflight \cup {id} |-> IF j = id THEN Suspend(op) ELSE inflight[j]]

-----------------------------------------------------------------------------
(* Navigation *)

showLogin ==
    /\ hidden' = showLoginHidden(hidden, globeStarted)
    /\ globeStarted' = TRUE
    /\ globeInits' = initGlobeCount(globeInits, globeStarted)
    /\ last' = Step("showLogin", "nav")
    /\ UNCHANGED <<strength, localStorage, writer, adminBtnDisplay, result, inflight,
                   numInvocations, numRequests>>

showRegister ==
    /\ hidden' = showRegisterHidden(hidden)
    /\ last' = Step("showRegister", "nav")
    /\ UNCHANGED <<strength, localStorage, writer, adminBtnDisplay, globeStarted,
                   globeInits, result, inflight, numInvocations, numRequests>>

\* mutant of logoutClear: the role flag is left behind
logoutClear_TokenOnly(ls) == removeItem(ls, KEY_TOKEN)

\* logout's two removeItem calls
logoutClear(ls) == removeItem(removeItem(ls, KEY_TOKEN), KEY_IS_ADMIN)

\* mutant of logout: the calls in flight are abandoned
logout_Cancels ==
    /\ localStorage' = logoutClear(localStorage)
    /\ writer' = logoutClear(writer)
    /\ adminBtnDisplay' = "none"
    /\ hidden' = logoutHidden(hidden)
    /\ inflight' = <<>>
    /\ last' = Step("logout", "nav")
    /\ UNCHANGED <<strength, globeStarted, globeInits, result, numInvocations,
                   numRequests>>

logout ==
    /\ localStorage' = logoutClear(localStorage)
    /\ writer' = logoutClear(writer)
    /\ adminBtnDisplay' = "none"
    /\ hidden' = logoutHidden(hidden)
    /\ last' = Step("logout", "nav")
    /\ UNCHANGED <<strength, globeStarted, globeInits, result, inflight, numInvocations,
                   numRequests>>

\* the page is loaded again: the script and the document start over, the
\* suspended calls of the old page are gone, localStorage stays
reload ==
    /\ hidden' = InitialHidden
    /\ adminBtnDisplay' = InitialAdminDisplay
    /\ globeStarted' = FALSE
    /\ globeInits' = 0
    /\ result' = InitialResult
    /\ strength' = InitialStrength
    /\ inflight' = <<>>
    /\ last' = Step("reload", "nav")
    /\ UNCHANGED <<localStorage, writer, numInvocations, numRequests>>

-----------------------------------------------------------------------------
(* REGISTER *)

\* the synchronous part: read the fields, validate, call fetch
register(username, password) ==
    /\ numInvocations < MaxInvocations
    /\ numInvocations' = numInvocations + 1
    /\ LET id == numInvocations + 1
           call == [Step("register", "call") EXCEPT
                       !.id = id, !.username = username, !.password = password]
       IN IF fieldsMissing(username, password)
          THEN /\ last' = [call EXCEPT !.alerts = <<MSG_FILL>>]
               /\ UNCHANGED <<inflight, numRequests>>
          ELSE /\ inflight' = Start(id, "register")
               /\ numRequests' = numRequests + 1
               /\ last' = [call EXCEPT !.request =
                              [NoRequest EXCEPT !.url = "/register",
                                                !.username = username,
                                                !.password = password]]
    /\ UNCHANGED <<strength, localStorage, writer, hidden, adminBtnDisplay, globeStarted,
                   globeInits, result>>

\* fetch resolved: response.json() is called and awaited
registerResponse(id, status) ==
    /\ id \in Pending("register", "fetch")
    /\ inflight' = [inflight EXCEPT ![id].pc = "json", ![id].status = status]
    /\ last' = [Step("register", "response") EXCEPT
                   !.id = id, !.status = status, !.json = TRUE]
    /\ UNCHANGED <<strength, localStorage, writer, hidden, adminBtnDisplay, globeStarted,
                   globeInits, result, numInvocations, numRequests>>

\* the message register shows for a rejected registration
registerDetail(data) ==
    IF data.detail.t = "string" THEN data.detail.v ELSE JSONstringify(data.detail)

\* response.json() resolved with data
registerBody(id, data) ==
    /\ id \in Pending("register", "json")
    /\ data \in ResponseBodies("register", inflight[id].status)
    /\ inflight' = Drop(id)
    /\ LET status == inflight[id].status
           step == [Step("register", "body") EXCEPT
                       !.id = id, !.status = status, !.stage = "json", !.data = data]
       IN IF ok(status)
          THEN /\ last' = [step EXCEPT !.alerts = <<MSG_REGISTERED>>]
               /\ hidden' = showLoginHidden(hidden, globeStarted)
               /\ globeStarted' = TRUE
               /\ globeInits' = initGlobeCount(globeInits, globeStarted)
          ELSE /\ last' = [step EXCEPT !.alerts = <<registerDetail(data)>>]
               /\ UNCHANGED <<hidden, globeStarted, globeInits>>
    /\ UNCHANGED <<strength, localStorage, writer, adminBtnDisplay, result, numInvocations,
                   numRequests>>

\* fetch rejected (no response) or response.json() rejected (a body that is
\* not JSON, an empty one included): the catch block
registerCatch(id) ==
    /\ id \in Pending("register", "fetch") \cup Pending("register", "json")
    /\ inflight' = Drop(id)
    /\ last' = [Step("register", "catch") EXCEPT
                   !.id = id, !.status = inflight[id].status,
                   !.stage = inflight[id].pc, !.alerts = <<MSG_NOT_RUNNING>>]
    /\ UNCHANGED <<strength, localStorage, writer, hidden, adminBtnDisplay, globeStarted,
                   globeInits, result, numInvocations, numRequests>>

-----------------------------------------------------------------------------
(* LOGIN *)

login(username, password) ==
    /\ numInvocations < MaxInvocations
    /\ numInvocations' = numInvocations + 1
    /\ LET id == numInvocations + 1
           call == [Step("login", "call") EXCEPT
                       !.id = id, !.username = username, !.password = password]
       IN IF fieldsMissing(username, password)
          THEN /\ last' = [call EXCEPT !.alerts = <<MSG_FILL>>]
               /\ UNCHANGED <<inflight, numRequests>>
          ELSE /\ inflight' = Start(id, "login")
               /\ numRequests' = numRequests + 1
               /\ last' = [call EXCEPT !.request =
                              [NoRequest EXCEPT !.url = "/login",
                                                !.username = username,
                                                !.password = password]]
    /\ UNCHANGED <<strength, localStorage, writer, hidden, adminBtnDisplay, globeStarted,
                   globeInits, result>>

\* fetch resolved: 429 ends the call, anything else goes on to response.json()
loginResponse(id, status) ==
    /\ id \in Pending("login", "fetch")
    /\ LET step == [Step("login", "response") EXCEPT !.id = id, !.status = status]
       IN IF isRateLimited(status)
          THEN /\ inflight' = Drop(id)
               /\ last' = [step EXCEPT !.alerts = <<MSG_RATE_LIMIT>>]
          ELSE /\ inflight' = [inflight EXCEPT ![id].pc = "json", ![id].status = status]
               /\ last' = [step EXCEPT !.json = TRUE]
    /\ UNCHANGED <<strength, localStorage, writer, hidden, adminBtnDisplay, globeStarted,
                   globeInits, result, numInvocations, numRequests>>

\* mutant of loginSave: a response without the flag stores only the token
loginSave_SkipAbsent(ls, data) ==
    IF data.is_admin = Undefined
    THEN setItem(ls, KEY_TOKEN, data.access_token)
    ELSE setItem(setItem(ls, KEY_TOKEN, data.access_token), KEY_IS_ADMIN, data.is_admin)

\* the two setItem calls of a successful login
loginSave(ls, data) ==
    setItem(setItem(ls, KEY_TOKEN, data.access_token), KEY_IS_ADMIN, data.is_admin)

\* mutant of adminDisplayFor: tests !== false, so a missing flag shows the button
adminDisplayFor_NotFalse(data) ==
    IF data.is_admin = Bool(FALSE) THEN "none" ELSE "inline-block"

\* data.is_admin === true ? "inline-block" : "none"
adminDisplayFor(data) ==
    IF data.is_admin = Bool(TRUE) THEN "inline-block" ELSE "none"

loginBody(id, data) ==
    /\ id \in Pending("login", "json")
    /\ data \in ResponseBodies("login", inflight[id].status)
    /\ inflight' = Drop(id)
    /\ LET status == inflight[id].status
           step == [Step("login", "body") EXCEPT
                       !.id = id, !.status = status, !.stage = "json", !.data = data]
       IN IF ok(status)
          THEN /\ localStorage' = loginSave(localStorage, data)
               /\ writer' = setWriter(setWriter(writer, KEY_TOKEN, id), KEY_IS_ADMIN, id)
               /\ adminBtnDisplay' = adminDisplayFor(data)
               /\ last' = [step EXCEPT !.alerts = <<MSG_LOGIN_OK>>]
               /\ hidden' = showDashboardHidden(hidden)
          ELSE /\ last' = [step EXCEPT !.alerts = <<StringOf(data.detail)>>]
               /\ UNCHANGED <<localStorage, writer, adminBtnDisplay, hidden>>
    /\ UNCHANGED <<strength, globeStarted, globeInits, result, numInvocations, numRequests>>

\* mutant of loginCatch: the request is sent again
loginCatch_Retry(id) ==
    /\ id \in Pending("login", "fetch") \cup Pending("login", "json")
    /\ inflight' = [inflight EXCEPT ![id].pc = "fetch", ![id].status = 0]
    /\ numRequests' = numRequests + 1
    /\ last' = [Step("login", "catch") EXCEPT
                   !.id = id, !.status = inflight[id].status,
                   !.stage = inflight[id].pc, !.alerts = <<MSG_NOT_RUNNING>>]
    /\ UNCHANGED <<strength, localStorage, writer, hidden, adminBtnDisplay,
                   globeStarted, globeInits, result, numInvocations>>

loginCatch(id) ==
    /\ id \in Pending("login", "fetch") \cup Pending("login", "json")
    /\ inflight' = Drop(id)
    /\ last' = [Step("login", "catch") EXCEPT
                   !.id = id, !.status = inflight[id].status,
                   !.stage = inflight[id].pc, !.alerts = <<MSG_NOT_RUNNING>>]
    /\ UNCHANGED <<strength, localStorage, writer, hidden, adminBtnDisplay, globeStarted,
                   globeInits, result, numInvocations, numRequests>>

-----------------------------------------------------------------------------
(* ANALYZE *)

\* mutant of bearer: the token is left out of the header
bearer_NoToken(token) == "Bearer "

\* "Bearer " + token
bearer(token) == "Bearer " \o StringOf(token)

analyzeMessage(message) ==
    /\ numInvocations < MaxInvocations
    /\ numInvocations' = numInvocations + 1
    /\ LET id == numInvocations + 1
           token == getItem(localStorage, KEY_TOKEN)
           call == [Step("analyze", "call") EXCEPT !.id = id, !.message = message]
       IN IF Falsy(Str(message))
          THEN /\ last' = [call EXCEPT !.alerts = <<MSG_ENTER_MESSAGE>>]
               /\ UNCHANGED <<inflight, numRequests>>
          ELSE IF Falsy(token)
          THEN /\ last' = [call EXCEPT !.alerts = <<MSG_LOGIN_FIRST>>]
               /\ UNCHANGED <<inflight, numRequests>>
          ELSE /\ inflight' = Start(id, "analyze")
               /\ numRequests' = numRequests + 1
               /\ last' = [call EXCEPT !.request =
                              [NoRequest EXCEPT !.url = "/analyze",
                                                !.authorization = bearer(token),
                                                !.text = message]]
    /\ UNCHANGED <<strength, localStorage, writer, hidden, adminBtnDisplay, globeStarted,
                   globeInits, result>>

analyzeResponse(id, status) ==
    /\ id \in Pending("analyze", "fetch")
    /\ inflight' = [inflight EXCEPT ![id].pc = "json", ![id].status = status]
    /\ last' = [Step("analyze", "response") EXCEPT
                   !.id = id, !.status = status, !.json = TRUE]
    /\ UNCHANGED <<strength, localStorage, writer, hidden, adminBtnDisplay, globeStarted,
                   globeInits, result, numInvocations, numRequests>>

\* Math.min(data.score * 10, 100), the width of the risk meter in percent
meterWidth(score) == IF score * 10 < 100 THEN score * 10 ELSE 100

analyzeBody(id, data) ==
    /\ id \in Pending("analyze", "json")
    /\ data \in ResponseBodies("analyze", inflight[id].status)
    /\ inflight' = Drop(id)
    /\ LET status == inflight[id].status
           step == [Step("analyze", "body") EXCEPT
                       !.id = id, !.status = status, !.stage = "json", !.data = data]
       IN IF ~ok(status)
          THEN /\ last' = [step EXCEPT !.alerts = <<StringOf(data.detail)>>]
               /\ UNCHANGED result
          ELSE /\ last' = [step EXCEPT !.alerts =
                              IF Falsy(data.warning) THEN <<>>
                              ELSE <<StringOf(data.warning)>>]
               /\ result' = [hidden |-> FALSE,
                             risk |-> StringOf(data.risk_level),
                             score |-> data.score,
                             action |-> StringOf(data.action),
                             width |-> meterWidth(data.score)]
    /\ UNCHANGED <<strength, localStorage, writer, hidden, adminBtnDisplay, globeStarted,
                   globeInits, numInvocations, numRequests>>

\* mutant of analyzeCatch: a failed analysis drops the session
analyzeCatch_Clears(id) ==
    /\ id \in Pending("analyze", "fetch") \cup Pending("analyze", "json")
    /\ inflight' = Drop(id)
    /\ localStorage' = logoutClear(localStorage)
    /\ writer' = logoutClear(writer)
    /\ last' = [Step("analyze", "catch") EXCEPT
                   !.id = id, !.status = inflight[id].status,
                   !.stage = inflight[id].pc, !.alerts = <<MSG_SERVER_ERROR>>]
    /\ UNCHANGED <<strength, hidden, adminBtnDisplay, globeStarted, globeInits,
                   result, numInvocations, numRequests>>

analyzeCatch(id) ==
    /\ id \in Pending("analyze", "fetch") \cup Pending("analyze", "json")
    /\ inflight' = Drop(id)
    /\ last' = [Step("analyze", "catch") EXCEPT
                   !.id = id, !.status = inflight[id].status,
                   !.stage = inflight[id].pc, !.alerts = <<MSG_SERVER_ERROR>>]
    /\ UNCHANGED <<strength, localStorage, writer, hidden, adminBtnDisplay, globeStarted,
                   globeInits, result, numInvocations, numRequests>>


-----------------------------------------------------------------------------
(* PASSWORD STRENGTH *)

\* a password is the sequence of its characters
MaxPasswordLen == 8

UpperChars == {"A", "B", "C", "D", "E", "F", "G", "H", "I", "J", "K", "L", "M",
               "N", "O", "P", "Q", "R", "S", "T", "U", "V", "W", "X", "Y", "Z"}
LowerChars == {"a", "b", "c", "d", "e", "f", "g", "h", "i", "j", "k", "l", "m",
               "n", "o", "p", "q", "r", "s", "t", "u", "v", "w", "x", "y", "z"}
DigitChars == {"0", "1", "2", "3", "4", "5", "6", "7", "8", "9"}
SymbolChars == {"!", "@", "#", "$", "%", "^", "&", "*", "(", ")", ",", ".", "?",
                "\"", ":", "{", "}", "|", "<", ">"}

\* regex.test(p) for a character class
test(class, p) == \E i \in DOMAIN p : p[i] \in class

MIN_LENGTH == 8

\* the five rules in the order of the ids list
checks(p) ==
    <<Len(p) >= MIN_LENGTH, test(UpperChars, p), test(LowerChars, p),
      test(DigitChars, p), test(SymbolChars, p)>>

\* the forEach loop: score++ for every valid rule among the first n
RECURSIVE scoreLoop(_, _)
scoreLoop(cs, n) ==
    IF n = 0 THEN 0
    ELSE scoreLoop(cs, n - 1) + (IF cs[n] THEN 1 ELSE 0)

\* mutant of tierClass: < in place of <=
tierClass_Strict(score) ==
    IF score < 2 THEN "weak"
    ELSE IF score < 4 THEN "medium"
    ELSE "strong"

\* the class added to the bar
tierClass(score) ==
    IF score <= 2 THEN "weak"
    ELSE IF score <= 4 THEN "medium"
    ELSE "strong"

\* password: what the field held; score: the local counter at the end
checkStrength(p) ==
    /\ LET cs == checks(p)
           score == scoreLoop(cs, Len(cs))
       IN strength' =
             [password |-> p,
              colors |-> [i \in 1..5 |-> IF cs[i] THEN "limegreen" ELSE "red"],
              score |-> score,
              className |-> {"strength-bar"} \cup {tierClass(score)}]
    /\ last' = Step("checkStrength", "input")
    /\ UNCHANGED <<localStorage, writer, hidden, adminBtnDisplay, globeStarted,
                   globeInits, result, inflight, numInvocations, numRequests>>

\* the field contents tried next to the network calls
TypedPasswords == {<<>>, <<"P", "a", "s", "s", "w", "0", "r", "d", "!">>}

\* n copies of c
Repeat(c, n) == [i \in 1..n |-> c]

\* passwords of up to MaxPasswordLen characters: a run of each class and of
\* a character outside all classes
PasswordInputs ==
    {Repeat("Q", n[1]) \o Repeat("z", n[2]) \o Repeat("7", n[3])
        \o Repeat("#", n[4]) \o Repeat("_", n[5]) :
     n \in {m \in [1..5 -> 0..MaxPasswordLen] :
               m[1] + m[2] + m[3] + m[4] + m[5] <= MaxPasswordLen}}

-----------------------------------------------------------------------------

Ids == 1..MaxInvocations

Next ==
    \/ showLogin
    \/ showRegister
    \/ logout
    \/ reload
    \/ \E u \in Usernames, p \in Passwords : register(u, p)
    \/ \E id \in Ids, st \in Statuses : registerResponse(id, st)
    \/ \E id \in Ids, d \in StringDetailBodies \cup StructuredDetailBodies \cup {AckBody} :
          registerBody(id, d)
    \/ \E id \in Ids : registerCatch(id)
    \/ \E u \in Usernames, p \in Passwords : login(u, p)
    \/ \E id \in Ids, st \in Statuses : loginResponse(id, st)
    \/ \E id \in Ids, d \in LoginBodies \cup StringDetailBodies : loginBody(id, d)
    \/ \E id \in Ids : loginCatch(id)
    \/ \E m \in Messages : analyzeMessage(m)
    \/ \E id \in Ids, st \in Statuses : analyzeResponse(id, st)
    \/ \E id \in Ids, d \in AnalysisBodies \cup StringDetailBodies : analyzeBody(id, d)
    \/ \E id \in Ids : analyzeCatch(id)
    \/ \E p \in TypedPasswords : checkStrength(p)

Spec == Init /\ [][Next]_vars

\* the strength evaluator alone, over all the password inputs
NextStrength == \E p \in PasswordInputs : checkStrength(p)

SpecStrength == Init /\ [][NextStrength]_vars

-----------------------------------------------------------------------------
(* Properties *)

Stored(k) == k \in DOMAIN localStorage
NoSession == ~Stored(KEY_TOKEN) /\ ~Stored(KEY_IS_ADMIN)
AdminVisible == adminBtnDisplay # "none"

\* the step just taken handled the JSON body of a 2xx login response
LoginOkHandled == last.op = "login" /\ last.phase = "body" /\ Is2xx(last.status)

\* C1: right after a 2xx login response with token t and admin flag a is
\* handled, the stored session is the string forms of t and a (the flag of a
\* response without is_admin is stored as "undefined"), Dashboard is the
\* one visible section, and the admin button shows exactly when a is true.
C1_LoginOkEffect ==
    LoginOkHandled =>
        /\ DOMAIN localStorage = {KEY_TOKEN, KEY_IS_ADMIN}
        /\ localStorage[KEY_TOKEN] = last.data.access_token.v
        /\ localStorage[KEY_IS_ADMIN] =
              (CASE last.data.is_admin = Bool(TRUE) -> "true"
                 [] last.data.is_admin = Bool(FALSE) -> "false"
                 [] OTHER -> "undefined")
        /\ Visible = {"dashboardSection"}
        /\ AdminVisible <=> last.data.is_admin = Bool(TRUE)

C1_WitnessAdmin ==
    /\ LoginOkHandled
    /\ last.data.is_admin = Bool(TRUE)
    /\ localStorage[KEY_TOKEN] = "abc"
    /\ AdminVisible

C1_WitnessAbsent ==
    /\ LoginOkHandled
    /\ last.data.is_admin = Undefined
    /\ last.hadSession
    /\ ~AdminVisible

\* C2: right after logout, whatever the state before, nothing is stored,
\* Landing is the one visible section and the admin button is hidden.
C2_LogoutEffect ==
    last.op = "logout" =>
        /\ NoSession
        /\ Visible = {"landingSection"}
        /\ ~AdminVisible

\* logout taken while a session was stored
C2_Witness == last.op = "logout" /\ last.hadSession /\ NoSession

\* the step just taken handled a 429 answer to a login
Login429(l) == l.op = "login" /\ l.phase = "response" /\ l.status = 429

\* C3: a 429 answer to a login shows the rate-limit message (not the
\* server's message, not the connectivity message), response.json() is
\* not called then or later, and storage, sections and admin button stay
\* as they were.
C3_RateLimited ==
    [][Login429(last') =>
          /\ last'.alerts = <<MSG_RATE_LIMIT>>
          /\ ~last'.json
          /\ last'.id \notin DOMAIN inflight'
          /\ UNCHANGED <<localStorage, hidden, adminBtnDisplay>>]_vars

C3_Witness ==
    /\ Login429(last)
    /\ Stored(KEY_TOKEN)
    /\ Visible = {"registerSection"}

\* an error outcome other than 429: the call returned without a request
\* (validation, no session), a non-2xx body was handled, or the catch ran
ErrorOutcome(l) ==
    /\ l.op \in {"register", "login", "analyze"}
    /\ \/ l.phase = "call" /\ l.request = NoRequest
       \/ l.phase = "body" /\ ~Is2xx(l.status)
       \/ l.phase = "catch"

\* C4: every error outcome of register, login and analyze other than 429
\* leaves storage, sections and admin button as they were when it was
\* applied.
C4_ErrorsKeepState ==
    [][ErrorOutcome(last') => UNCHANGED <<localStorage, hidden, adminBtnDisplay>>]_vars

\* a login is rejected while an admin session is stored and shown
C4_WitnessRejected ==
    /\ last.op = "login" /\ last.phase = "body" /\ ~Is2xx(last.status)
    /\ Stored(KEY_TOKEN) /\ AdminVisible
    /\ Visible = {"dashboardSection"}

C4_WitnessUnreachable ==
    /\ last.op = "analyze" /\ last.phase = "catch" /\ last.stage = "fetch"
    /\ Stored(KEY_TOKEN)

\* C5: between any two steps token and role flag are stored both or
\* neither, and when stored both were written by the handler of one and
\* the same login response.
C5_SessionAtomic ==
    /\ Stored(KEY_TOKEN) <=> Stored(KEY_IS_ADMIN)
    /\ DOMAIN writer = DOMAIN localStorage
    /\ Stored(KEY_TOKEN) => writer[KEY_TOKEN] = writer[KEY_IS_ADMIN]

\* the session of the first login replaced the one of the second while a
\* flagless response was the last one handled
C5_Witness ==
    /\ LoginOkHandled
    /\ last.hadSession
    /\ Stored(KEY_TOKEN) /\ writer[KEY_TOKEN] = 1
    /\ numInvocations = 2

\* the stored session says admin
StoredAdmin == Stored(KEY_TOKEN) /\ Stored(KEY_IS_ADMIN) /\ localStorage[KEY_IS_ADMIN] = "true"

\* C6: in every state, reloads included, the admin button shows exactly
\* when a session with the flag true is stored.
C6_AdminFollowsSession == AdminVisible <=> StoredAdmin

\* the step just taken was a call of analyzeMessage with nothing stored
AnalyzeNoSession(l) == l.op = "analyze" /\ l.phase = "call" /\ ~l.hadSession

\* C7 as stated: analyze with no session stored always fails with
\* Unauthenticated and sends nothing.
C7_Original ==
    [][AnalyzeNoSession(last') =>
          /\ last'.alerts = <<MSG_LOGIN_FIRST>>
          /\ last'.request = NoRequest
          /\ UNCHANGED <<inflight, numRequests>>]_vars

\* C7 amended: analyze with no session stored sends nothing; it fails with
\* Unauthenticated when the message is non-empty and with the validation
\* message when the message is empty.
C7_NoSessionNoRequest ==
    [][AnalyzeNoSession(last') =>
          /\ last'.alerts =
                IF last'.message = "" THEN <<MSG_ENTER_MESSAGE>> ELSE <<MSG_LOGIN_FIRST>>
          /\ last'.request = NoRequest
          /\ UNCHANGED <<inflight, numRequests>>]_vars

\* analyze after a logout that cleared a session
C7_Witness ==
    /\ AnalyzeNoSession(last)
    /\ last.message = "hello"
    /\ last.alerts = <<MSG_LOGIN_FIRST>>
    /\ numInvocations = 2 /\ numRequests = 1

\* C8: register and login with an empty username or password show the
\* validation message, send nothing and change neither sections, admin
\* button nor storage; what they send carries both fields non-empty.
C8_EmptyFieldsRejected ==
    [][(last'.op \in {"register", "login"} /\ last'.phase = "call") =>
          /\ (last'.username = "" \/ last'.password = "") =>
                /\ last'.alerts = <<MSG_FILL>>
                /\ last'.request = NoRequest
                /\ UNCHANGED <<inflight, numRequests, localStorage, hidden,
                               adminBtnDisplay>>
          /\ last'.request # NoRequest =>
                /\ last'.request.username # ""
                /\ last'.request.password # ""
                /\ numRequests' = numRequests + 1]_vars

C8_WitnessRejected ==
    /\ last.op = "register" /\ last.phase = "call"
    /\ last.username = "alice" /\ last.password = ""
    /\ last.alerts = <<MSG_FILL>>

C8_WitnessSent ==
    /\ last.op = "login" /\ last.phase = "call"
    /\ last.request.url = "/login"

\* the step just taken ended a registration whose response had arrived
RegisterAnswered(l) ==
    l.op = "register" /\ l.phase \in {"body", "catch"} /\ l.stage = "json"

\* C9: a registration answered 2xx, an empty body included, shows the
\* success message and makes Login the visible section; one answered
\* non-2xx with a detail shows that detail and leaves the sections alone.
C9_RegisterOutcome ==
    [][RegisterAnswered(last') =>
          IF Is2xx(last'.status)
          THEN /\ last'.alerts = <<MSG_REGISTERED>>
               /\ Sections \ hidden' = {"loginSection"}
          ELSE last'.phase = "body" =>
                  /\ last'.alerts = <<registerDetail(last'.data)>>
                  /\ UNCHANGED hidden]_vars

\* C10: in every state exactly one of the four sections is visible.
C10_OneSectionVisible == Cardinality(Visible) = 1

\* a registration sent before a login is answered after the login opened
\* the dashboard
C10_Witness ==
    /\ last.op = "register" /\ last.phase = "body" /\ Is2xx(last.status)
    /\ Stored(KEY_TOKEN) /\ writer[KEY_TOKEN] > last.id
    /\ Visible = {"loginSection"}

\* the session a 2xx login response l leaves in storage
SessionOf(l) ==
    [k \in {KEY_TOKEN, KEY_IS_ADMIN} |->
        IF k = KEY_TOKEN THEN l.data.access_token.v
        ELSE IF l.data.is_admin = Bool(TRUE) THEN "true"
        ELSE IF l.data.is_admin = Bool(FALSE) THEN "false"
        ELSE "undefined"]

\* C11: storage changes only when a 2xx login response is handled (both
\* keys set from that response) and at logout (both keys removed);
\* register, analyze, the strength check, navigation and every other
\* outcome of login leave it as it was.
C11_OnlyLoginAndLogoutWrite ==
    [][/\ localStorage' # localStorage =>
             \/ LoginOkHandled' /\ localStorage' = SessionOf(last')
             \/ last'.op = "logout" /\ DOMAIN localStorage' = {}
       /\ (\/ last'.op \in {"register", "analyze", "checkStrength",
                            "showLogin", "showRegister"}
           \/ last'.op = "login" /\ ~LoginOkHandled')
             => UNCHANGED localStorage]_vars

\* an analysis is rendered while a session is stored and a password typed
C11_Witness ==
    /\ last.op = "analyze" /\ last.phase = "body" /\ Is2xx(last.status)
    /\ Stored(KEY_TOKEN) /\ Stored(KEY_IS_ADMIN)
    /\ strength.score = 5

\* the five password rules, as the specification words them
RuleHolds(i, p) ==
    CASE i = 1 -> Len(p) >= 8
      [] i = 2 -> \E j \in 1..Len(p) : p[j] \in UpperChars
      [] i = 3 -> \E j \in 1..Len(p) : p[j] \in LowerChars
      [] i = 4 -> \E j \in 1..Len(p) : p[j] \in DigitChars
      [] OTHER -> \E j \in 1..Len(p) : p[j] \in SymbolChars

Tiers == {"weak", "medium", "strong"}

\* C12: after every strength check the score is the number of rules the
\* password satisfies, each rule line is green exactly when its rule holds,
\* and the bar carries exactly one tier: weak iff score <= 2, medium iff
\* score is 3 or 4, strong iff score is 5 -- whatever was checked before.
C12_StrengthReport ==
    last.op = "checkStrength" =>
        LET p == strength.password
            sat == {i \in 1..5 : RuleHolds(i, p)}
        IN /\ strength.score = Cardinality(sat)
           /\ \A i \in 1..5 : strength.colors[i] = "limegreen" <=> i \in sat
           /\ \A i \in 1..5 : strength.colors[i] = "red" <=> i \notin sat
           /\ Cardinality(strength.className \cap Tiers) = 1
           /\ "weak" \in strength.className <=> strength.score <= 2
           /\ "medium" \in strength.className <=> strength.score \in {3, 4}
           /\ "strong" \in strength.className <=> strength.score = 5

\* eight characters, four of them of the four classes, rated strong
C12_Witness ==
    /\ last.op = "checkStrength"
    /\ Len(strength.password) = 8
    /\ strength.score = 5
    /\ "strong" \in strength.className

\* the step just taken rendered a 2xx analysis
AnalyzeOkHandled == last.op = "analyze" /\ last.phase = "body" /\ Is2xx(last.status)

\* C13: after a 2xx analysis with score s is rendered, the meter width is
\* within 0..100 percent and is s * 10 capped at 100, and the score shown
\* is s.
C13_MeterWidth ==
    AnalyzeOkHandled =>
        /\ result.width \in 0..100
        /\ result.width = (IF last.data.score * 10 > 100 THEN 100 ELSE last.data.score * 10)
        /\ result.score = last.data.score

\* the connectivity message of each call
UnreachableMsg(op) == IF op = "analyze" THEN MSG_SERVER_ERROR ELSE MSG_NOT_RUNNING

\* the text of a server-authored detail: the string, or the JSON text of
\* a structured one
DetailText(d) == d.v

\* C14: the connectivity message is shown only when fetch failed without a
\* response; once a response has arrived the outcome is success for 2xx,
\* the rate-limit message for a 429 on login and the server's detail for
\* every other status, whatever the body.
C14_Classification ==
    last.op \in {"register", "login", "analyze"} =>
        /\ last.alerts = <<UnreachableMsg(last.op)>> =>
              last.phase = "catch" /\ last.stage = "fetch"
        /\ (last.phase \in {"body", "catch"} /\ last.stage = "json") =>
              IF Is2xx(last.status)
              THEN /\ last.phase = "body"
                   /\ last.op = "register" => last.alerts = <<MSG_REGISTERED>>
                   /\ last.op = "login" => last.alerts = <<MSG_LOGIN_OK>>
                   /\ last.op = "analyze" => ~result.hidden
              ELSE /\ last.phase = "body"
                   /\ last.alerts = <<DetailText(last.data.detail)>>
        /\ (last.op = "login" /\ last.phase = "response" /\ last.status = 429) =>
              last.alerts = <<MSG_RATE_LIMIT>>

\* C15: a suspended login leaves the calls in flight only through its own
\* continuation (or with the page), whatever the user did meanwhile; and
\* when its 2xx body is handled the session becomes that response's, both
\* keys written by it, Dashboard the visible section and the admin button
\* set from its flag.
C15_LateLoginApplied ==
    [][/\ \A id \in DOMAIN inflight :
             inflight[id].op = "login" =>
                \/ id \in DOMAIN inflight'
                \/ last'.op = "login" /\ last'.id = id
                \/ last'.op = "reload"
       /\ LoginOkHandled' =>
             /\ localStorage' = SessionOf(last')
             /\ writer'[KEY_TOKEN] = last'.id /\ writer'[KEY_IS_ADMIN] = last'.id
             /\ Sections \ hidden' = {"dashboardSection"}
             /\ (adminBtnDisplay' # "none") <=> (last'.data.is_admin = Bool(TRUE))]_vars

\* the first login is answered after the second one completed: the session
\* of the second ("abc") is replaced by that of the first ("xyz")
C15_Witness ==
    /\ LoginOkHandled
    /\ last.id = 1 /\ numInvocations = 2 /\ inflight = <<>>
    /\ last.hadSession
    /\ localStorage[KEY_TOKEN] = "xyz" /\ writer[KEY_TOKEN] = 1
    /\ AdminVisible

\* C16: a step sends at most one request, only the call step of an
\* invocation sends one, and the requests sent never outnumber the
\* invocations.
C16_NoRetry ==
    [][/\ numRequests' \in {numRequests, numRequests + 1}
       /\ numRequests' = numRequests + 1 =>
             /\ numInvocations' = numInvocations + 1
             /\ last'.phase = "call"
       /\ numRequests' <= numInvocations']_vars

\* a login failed on the network after an invocation that sent nothing
C16_Witness ==
    /\ last.op = "login" /\ last.phase = "catch" /\ last.stage = "fetch"
    /\ numInvocations = 2 /\ numRequests = 1
    /\ inflight = <<>>

\* C17: a request to /analyze carries "Bearer " and the token stored when
\* analyze was called, a token written by a login response and still in
\* storage; neither the token nor the message sent is empty.
C17_AnalyzeBearer ==
    [][(last'.op = "analyze" /\ last'.request # NoRequest) =>
          /\ last'.request.url = "/analyze"
          /\ KEY_TOKEN \in DOMAIN localStorage
          /\ KEY_TOKEN \in DOMAIN writer /\ writer[KEY_TOKEN] \in Ids
          /\ localStorage[KEY_TOKEN] # ""
          /\ last'.request.authorization = "Bearer " \o localStorage[KEY_TOKEN]
          /\ last'.request.text = last'.message
          /\ last'.request.text # ""]_vars

C17_Witness ==
    /\ last.op = "analyze" /\ last.phase = "call"
    /\ last.request.authorization = "Bearer xyz"
    /\ last.request.text = "hello"

DashboardVisible == "dashboardSection" \in Visible

\* C18: whenever Dashboard is visible a token is stored; Dashboard becomes
\* visible only when a 2xx login response is handled, and the token leaves
\* storage only at logout, which hides Dashboard.
C18_DashboardNeedsSession ==
    [][/\ DashboardVisible' => Stored(KEY_TOKEN)'
       /\ (~DashboardVisible /\ DashboardVisible') => LoginOkHandled'
       /\ (Stored(KEY_TOKEN) /\ ~Stored(KEY_TOKEN)') =>
             last'.op = "logout" /\ ~DashboardVisible']_vars

\* the dashboard is still shown, with the session, after a failed analysis
C18_Witness ==
    /\ DashboardVisible /\ Stored(KEY_TOKEN)
    /\ last.op = "analyze" /\ last.phase = "catch"

\* the step just taken entered Login
EnteredLogin ==
    \/ last.op = "showLogin"
    \/ last.op = "register" /\ last.phase = "body" /\ Is2xx(last.status)

\* C19: the globe is built at most once per page; entering Login builds it
\* when it was not built yet and builds nothing when it was.
C19_GlobeOnce ==
    [][/\ globeInits' <= 1
       /\ EnteredLogin' =>
             /\ globeInits' = 1
             /\ globeStarted => globeInits' = globeInits
             /\ ~globeStarted => globeInits' = globeInits + 1
       /\ ~EnteredLogin' /\ last'.op # "reload" => globeInits' = globeInits]_vars

\* Login is entered by a registration success after the globe was built
C19_Witness ==
    /\ last.op = "register" /\ last.phase = "body" /\ Is2xx(last.status)
    /\ globeInits = 1
    /\ GLOBE \in hidden

====
